---- MODULE Spec2Model ----
(***************************************************************************)
(* Model of internal/app/app.go of drstein77/priceanalyzer: the Server     *)
(* (Serve, Shutdown, startServer and the initialize* helpers), the         *)
(* listener goroutine it spawns, the request handlers the listener         *)
(* dispatches, and the environment (interrupt signal, context              *)
(* cancellation, shutdown timer).                                          *)
(*                                                                         *)
(* The packages bdkeeper, storage and controllers are not part of the      *)
(* examined source; what the model needs of them (NewBDKeeper, Close,      *)
(* NewMemoryStorage, Get, Put) follows their contract in spec.md and is    *)
(* marked "contract" below.                                                *)
(***************************************************************************)
EXTENDS Naturals, FiniteSets

\* ------------------------------------------------------------------ bounds

\* Number of HTTP requests the listener may accept in one run.
MaxRequests == 2

Requests == 1..MaxRequests

\* Number of concurrent callers of the cache.
MaxCallers == 2

Callers == 1..MaxCallers

\* Number of Close calls the users of the cache make.
MaxCloseCalls == 2

\* ------------------------------------------------------------------ values

\* option.DataBaseDSN(): the empty descriptor and a non-empty one.
EmptyDSN == ""
DSNs == {EmptyDSN, "postgres://prices"}

\* A *bdkeeper.BDKeeper: the nil pointer, or an adapter whose connection is
\* "open" or "closed".
NilKeeper == "nil"

\* A storage.Keeper interface value: its dynamic type and its pointer.  The
\* nil interface has no dynamic type.
NilIface == [dyn |-> "none", ptr |-> NilKeeper]

\* A *storage.MemoryStorage: nil, or a cache wrapping an adapter.
NilStorage == "nil"

\* Price records: a key and the record held for it (NoRecord: none).
NoRecord == "none"
Keys == {"AAPL"}
Records == {"r1", "r2"}

\* Outcomes of Get and Put other than a record.
StorageUnavailable == "StorageUnavailable"
NotFoundError == "NotFoundError"
PersistenceError == "PersistenceError"
PutOk == "ok"

\* Log lines of app.go.
WarnDSNEmpty == "DataBaseDSN is empty"
WarnKeeperNil == "Keeper is nil, cannot initialize storage"
DebugKeeperFailed == "Failed to initialize keeper"
DebugStorageFailed == "Failed to initialize storage"
LogAttempt == "attempting to stop the server"
LogShutdownFailed == "server Shutdown Failed"
LogStopped == "server stopped"
LogExited == "server exited properly"
LogFatal == "fatal"

VARIABLES
    dsn,            \* option.DataBaseDSN()
    procState,      \* "running" | "exited"
    exitBy,         \* what ended the process: "none" | "logger" | "listener" | "main"
    servePc,        \* position of Serve
    keeper,         \* Serve's local keeper (*bdkeeper.BDKeeper)
    memoryStorage,  \* Serve's local memoryStorage: "unset" | "nil" | "ready" | "closed"
    nmsCalled,      \* storage.NewMemoryStorage has been called
    controller,     \* the storage the BaseController holds: "none" | "nil" | "ready"
    srv,            \* server.srv: "nil" | "set"
    lisPc,          \* the http.Server and its listener goroutine
    inShutdown,     \* http.Server.inShutdown
    notified,       \* signal.Notify(stopChan, os.Interrupt) has run
    stopChan,       \* number of signals buffered in stopChan (capacity 1)
    ctxCanceled,    \* server.ctx is canceled
    timeoutElapsed, \* the timer of ctxShutDown has fired
    shPc,           \* position of Shutdown
    logs,           \* log lines written so far
    closeCalls,     \* calls of keeper.Close()
    released,       \* connections released by Close
    req,            \* the requests: position, whether accepted after the signal,
                    \* and the adapter state its storage operation met
    mem,            \* the cache's in-memory map: key -> record
    db,             \* the durable store behind the adapter: key -> record
    lockedBy,       \* holder of the cache's in-memory lock (0: free)
    call            \* the callers of the cache: position, operation, result

vars == <<dsn, procState, exitBy, servePc, keeper, memoryStorage, nmsCalled,
          controller, srv, lisPc, inShutdown, notified, stopChan, ctxCanceled,
          timeoutElapsed, shPc, logs, closeCalls, released, req,
          mem, db, lockedBy, call>>

cacheVars == <<mem, db, lockedBy, call>>

\* ------------------------------------------------ contract of bdkeeper, storage

\* bdkeeper.NewBDKeeper(dsn, logger): Open is eager and yields no adapter when
\* the descriptor is empty or the connection cannot be established.
NewBDKeeper(d, up) == IF d = EmptyDSN \/ ~up THEN NilKeeper ELSE "open"

\* (*BDKeeper).Close(): releases the connection; a no-op on a nil or an
\* already closed adapter.
BDKeeperClose(k) ==
    [keeper |-> IF k = "open" THEN "closed" ELSE k,
     released |-> IF k = "open" THEN 1 ELSE 0]

\* storage.NewMemoryStorage(ctx, keeper, logger): nil when there is no adapter.
NewMemoryStorage(i) == IF i.ptr = NilKeeper THEN NilStorage ELSE "ready"

\* ------------------------------------------------------- helpers of app.go

\* Passing the *bdkeeper.BDKeeper as the storage.Keeper parameter of
\* initializeStorage: the interface value carries the pointer's type, also
\* for a nil pointer.
ToKeeperIface(k) == [dyn |-> "*bdkeeper.BDKeeper", ptr |-> k]

\* Mutation: the empty descriptor is not checked, and an adapter is opened
\* whenever the store is reachable.
initializeKeeper_NoEmptyCheck(d, up) ==
    [keeper |-> IF up THEN "open" ELSE NilKeeper, logs |-> {}]

\* initializeKeeper(dataBaseDSN, logger)
initializeKeeper(d, up) ==
    IF d = EmptyDSN
    THEN [keeper |-> NilKeeper, logs |-> {WarnDSNEmpty}]
    ELSE [keeper |-> NewBDKeeper(d, up), logs |-> {}]

\* Mutation: a cache is built whatever the adapter is.
initializeStorage_NoNilCheck(i) ==
    [storage |-> "ready", logs |-> {}, called |-> TRUE]

\* initializeStorage(ctx, keeper, logger)
initializeStorage(i) ==
    IF i = NilIface
    THEN [storage |-> NilStorage, logs |-> {WarnKeeperNil}, called |-> FALSE]
    ELSE [storage |-> NewMemoryStorage(i), logs |-> {}, called |-> TRUE]

\* Mutation: the controller is given a storage of its own.
initializeBaseController_OwnStorage(s) == "ready"

\* initializeBaseController(ctx, storage, logger)
initializeBaseController(s) == s

Running == procState = "running"

\* log.Fatalln: the line is written and os.Exit(1) ends the process; deferred
\* calls do not run.
Fatal(by) ==
    /\ procState' = "exited"
    /\ exitBy' = by
    /\ logs' = logs \cup {LogFatal}

\* ------------------------------------------------------------------ Serve

ServeNewLogger ==
    /\ Running /\ servePc = "newLogger"
    /\ \E ok \in BOOLEAN :
         IF ok
         THEN /\ servePc' = "initKeeper"
              /\ UNCHANGED <<procState, exitBy, logs>>
         ELSE /\ servePc' = "fatal"
              /\ Fatal("logger")
    /\ UNCHANGED <<dsn, keeper, memoryStorage, nmsCalled, controller, srv, lisPc,
                   inShutdown, notified, stopChan, ctxCanceled, timeoutElapsed,
                   shPc, closeCalls, released, req, cacheVars>>

ServeInitKeeper ==
    /\ Running /\ servePc = "initKeeper"
    /\ \E up \in BOOLEAN :
         LET r == initializeKeeper(dsn, up) IN
           /\ keeper' = r.keeper
           /\ logs' = logs \cup r.logs
                        \cup (IF r.keeper = NilKeeper THEN {DebugKeeperFailed} ELSE {})
    /\ servePc' = "initStorage"
    /\ UNCHANGED <<dsn, procState, exitBy, memoryStorage, nmsCalled, controller,
                   srv, lisPc, inShutdown, notified, stopChan, ctxCanceled,
                   timeoutElapsed, shPc, closeCalls, released, req, cacheVars>>

ServeInitStorage ==
    /\ Running /\ servePc = "initStorage"
    /\ LET r == initializeStorage(ToKeeperIface(keeper)) IN
         /\ memoryStorage' = r.storage
         /\ nmsCalled' = r.called
         /\ logs' = logs \cup r.logs
                      \cup (IF r.storage = NilStorage THEN {DebugStorageFailed} ELSE {})
    /\ servePc' = "initController"
    /\ UNCHANGED <<dsn, procState, exitBy, keeper, controller, srv, lisPc,
                   inShutdown, notified, stopChan, ctxCanceled, timeoutElapsed,
                   shPc, closeCalls, released, req, cacheVars>>

ServeInitController ==
    /\ Running /\ servePc = "initController"
    /\ controller' = initializeBaseController(memoryStorage)
    /\ servePc' = "startServer"
    /\ UNCHANGED <<dsn, procState, exitBy, keeper, memoryStorage, nmsCalled, srv,
                   lisPc, inShutdown, notified, stopChan, ctxCanceled,
                   timeoutElapsed, shPc, logs, closeCalls, released, req, cacheVars>>

\* startServer: builds the http.Server and spawns the listener goroutine.
ServeStartServer ==
    /\ Running /\ servePc = "startServer"
    /\ lisPc' = "spawned"
    /\ servePc' = "assignSrv"
    /\ UNCHANGED <<dsn, procState, exitBy, keeper, memoryStorage, nmsCalled,
                   controller, srv, inShutdown, notified, stopChan, ctxCanceled,
                   timeoutElapsed, shPc, logs, closeCalls, released, req, cacheVars>>

\* server.srv = <the server startServer returned>
ServeAssignSrv ==
    /\ Running /\ servePc = "assignSrv"
    /\ srv' = "set"
    /\ servePc' = "notify"
    /\ UNCHANGED <<dsn, procState, exitBy, keeper, memoryStorage, nmsCalled,
                   controller, lisPc, inShutdown, notified, stopChan, ctxCanceled,
                   timeoutElapsed, shPc, logs, closeCalls, released, req, cacheVars>>

ServeNotify ==
    /\ Running /\ servePc = "notify"
    /\ notified' = TRUE
    /\ servePc' = "waiting"
    /\ UNCHANGED <<dsn, procState, exitBy, keeper, memoryStorage, nmsCalled,
                   controller, srv, lisPc, inShutdown, stopChan, ctxCanceled,
                   timeoutElapsed, shPc, logs, closeCalls, released, req, cacheVars>>

\* <-stopChan
ServeReceive ==
    /\ Running /\ servePc = "waiting"
    /\ stopChan > 0
    /\ stopChan' = stopChan - 1
    /\ servePc' = "returning"
    /\ UNCHANGED <<dsn, procState, exitBy, keeper, memoryStorage, nmsCalled,
                   controller, srv, lisPc, inShutdown, notified, ctxCanceled,
                   timeoutElapsed, shPc, logs, closeCalls, released, req, cacheVars>>

\* Serve returns: the deferred keeper.Close() runs.
ServeDeferredClose ==
    /\ Running /\ servePc = "returning"
    /\ LET c == BDKeeperClose(keeper) IN
         /\ keeper' = c.keeper
         /\ released' = released + c.released
    /\ closeCalls' = closeCalls + 1
    /\ servePc' = "done"
    /\ UNCHANGED <<dsn, procState, exitBy, memoryStorage, nmsCalled, controller,
                   srv, lisPc, inShutdown, notified, stopChan, ctxCanceled,
                   timeoutElapsed, shPc, logs, req, cacheVars>>

\* The caller of Serve returns from main once Serve has returned.
MainReturn ==
    /\ Running /\ servePc = "done"
    /\ procState' = "exited"
    /\ exitBy' = "main"
    /\ UNCHANGED <<dsn, servePc, keeper, memoryStorage, nmsCalled, controller, srv,
                   lisPc, inShutdown, notified, stopChan, ctxCanceled,
                   timeoutElapsed, shPc, logs, closeCalls, released, req, cacheVars>>

\* ------------------------------------------------------ listener goroutine

\* server.ListenAndServe() in the goroutine of startServer: a server already
\* shut down returns http.ErrServerClosed at once; otherwise the listener
\* binds and accepts, or net.Listen fails.
ListenAndServe ==
    /\ Running /\ lisPc = "spawned"
    /\ IF inShutdown
       THEN lisPc' = "errClosed"
       ELSE \E ok \in BOOLEAN : lisPc' = IF ok THEN "listening" ELSE "failed"
    /\ UNCHANGED <<dsn, procState, exitBy, servePc, keeper, memoryStorage,
                   nmsCalled, controller, srv, inShutdown, notified, stopChan,
                   ctxCanceled, timeoutElapsed, shPc, logs, closeCalls, released,
                   req, cacheVars>>

\* Accept fails with a permanent error: ListenAndServe returns it.
AcceptError ==
    /\ Running /\ lisPc = "listening"
    /\ lisPc' = "failed"
    /\ UNCHANGED <<dsn, procState, exitBy, servePc, keeper, memoryStorage,
                   nmsCalled, controller, srv, inShutdown, notified, stopChan,
                   ctxCanceled, timeoutElapsed, shPc, logs, closeCalls, released,
                   req, cacheVars>>

\* Mutation: the goroutine drops the error and ends.
ListenerFatal_Ignored ==
    /\ Running /\ lisPc = "failed"
    /\ lisPc' = "ended"
    /\ UNCHANGED <<dsn, procState, exitBy, servePc, keeper, memoryStorage,
                   nmsCalled, controller, srv, inShutdown, notified, stopChan,
                   ctxCanceled, timeoutElapsed, shPc, logs, closeCalls, released,
                   req, cacheVars>>

\* err != nil && !errors.Is(err, http.ErrServerClosed): log.Fatalln(err)
ListenerFatal ==
    /\ Running /\ lisPc = "failed"
    /\ Fatal("listener")
    /\ UNCHANGED <<dsn, servePc, keeper, memoryStorage, nmsCalled, controller,
                   srv, lisPc, inShutdown, notified, stopChan, ctxCanceled,
                   timeoutElapsed, shPc, closeCalls, released, req, cacheVars>>

\* Mutation: http.ErrServerClosed is treated as any other error.
ListenerEnd_Fatal ==
    /\ Running /\ lisPc = "errClosed"
    /\ Fatal("listener")
    /\ UNCHANGED <<dsn, servePc, keeper, memoryStorage, nmsCalled, controller,
                   srv, lisPc, inShutdown, notified, stopChan, ctxCanceled,
                   timeoutElapsed, shPc, closeCalls, released, req, cacheVars>>

\* err is http.ErrServerClosed: the goroutine ends.
ListenerEnd ==
    /\ Running /\ lisPc = "errClosed"
    /\ lisPc' = "ended"
    /\ UNCHANGED <<dsn, procState, exitBy, servePc, keeper, memoryStorage,
                   nmsCalled, controller, srv, inShutdown, notified, stopChan,
                   ctxCanceled, timeoutElapsed, shPc, logs, closeCalls, released,
                   req, cacheVars>>

Accepting == Running /\ lisPc = "listening"

\* Serve has received from stopChan.
SignalReceived == servePc \in {"returning", "done"}

\* ---------------------------------------------------------------- requests

InFlight(h) == req[h].pc \in {"accepted", "served"}

\* The listener accepts a connection and dispatches its request to the router.
Accept(h) ==
    /\ Accepting
    /\ req[h].pc = "idle"
    /\ req' = [req EXCEPT ![h] = [pc |-> "accepted", afterSignal |-> SignalReceived,
                                  storeAt |-> "none"]]
    /\ UNCHANGED <<dsn, procState, exitBy, servePc, keeper, memoryStorage,
                   nmsCalled, controller, srv, lisPc, inShutdown, notified,
                   stopChan, ctxCanceled, timeoutElapsed, shPc, logs, closeCalls,
                   released, cacheVars>>

\* The handler's storage operation, through the controller's storage; it meets
\* the adapter in the state Serve's keeper is in.
StorageOp(h) ==
    /\ Running
    /\ req[h].pc = "accepted"
    /\ req' = [req EXCEPT ![h].pc = "served",
                          ![h].storeAt = IF controller = NilStorage
                                         THEN "unavailable" ELSE keeper]
    /\ UNCHANGED <<dsn, procState, exitBy, servePc, keeper, memoryStorage,
                   nmsCalled, controller, srv, lisPc, inShutdown, notified,
                   stopChan, ctxCanceled, timeoutElapsed, shPc, logs, closeCalls,
                   released, cacheVars>>

\* The handler writes its response; the connection becomes idle.
Respond(h) ==
    /\ Running
    /\ req[h].pc = "served"
    /\ req' = [req EXCEPT ![h].pc = "done"]
    /\ UNCHANGED <<dsn, procState, exitBy, servePc, keeper, memoryStorage,
                   nmsCalled, controller, srv, lisPc, inShutdown, notified,
                   stopChan, ctxCanceled, timeoutElapsed, shPc, logs, closeCalls,
                   released, cacheVars>>

\* ---------------------------------------------------------------- Shutdown

\* Shutdown(timeout) is called: ctxShutDown is derived from server.ctx and
\* "attempting to stop the server" is logged.
ShutdownCall ==
    /\ Running /\ shPc = "idle"
    /\ shPc' = "checkSrv"
    /\ logs' = logs \cup {LogAttempt}
    /\ UNCHANGED <<dsn, procState, exitBy, servePc, keeper, memoryStorage,
                   nmsCalled, controller, srv, lisPc, inShutdown, notified,
                   stopChan, ctxCanceled, timeoutElapsed, closeCalls, released,
                   req, cacheVars>>

\* if server.srv != nil { ... }; with no server, "server exited properly".
ShutdownCheckSrv ==
    /\ Running /\ shPc = "checkSrv"
    /\ IF srv = "nil"
       THEN /\ shPc' = "done"
            /\ logs' = logs \cup {LogExited}
       ELSE /\ shPc' = "closeListeners"
            /\ logs' = logs
    /\ UNCHANGED <<dsn, procState, exitBy, servePc, keeper, memoryStorage,
                   nmsCalled, controller, srv, lisPc, inShutdown, notified,
                   stopChan, ctxCanceled, timeoutElapsed, closeCalls, released,
                   req, cacheVars>>

\* server.srv.Shutdown(ctxShutDown), first part: inShutdown is set and the
\* listeners are closed, so ListenAndServe returns http.ErrServerClosed.
HttpShutdownBegin ==
    /\ Running /\ shPc = "closeListeners"
    /\ inShutdown' = TRUE
    /\ lisPc' = IF lisPc = "listening" THEN "errClosed" ELSE lisPc
    /\ shPc' = "waitIdle"
    /\ UNCHANGED <<dsn, procState, exitBy, servePc, keeper, memoryStorage,
                   nmsCalled, controller, srv, notified, stopChan, ctxCanceled,
                   timeoutElapsed, logs, closeCalls, released, req, cacheVars>>

CtxShutDownDone == ctxCanceled \/ timeoutElapsed

\* server.srv.Shutdown returns nil once no connection is active; Shutdown logs
\* "server stopped" and "server exited properly".
HttpShutdownIdle ==
    /\ Running /\ shPc = "waitIdle"
    /\ \A h \in Requests : ~InFlight(h)
    /\ shPc' = "done"
    /\ logs' = logs \cup {LogStopped, LogExited}
    /\ UNCHANGED <<dsn, procState, exitBy, servePc, keeper, memoryStorage,
                   nmsCalled, controller, srv, lisPc, inShutdown, notified,
                   stopChan, ctxCanceled, timeoutElapsed, closeCalls, released,
                   req, cacheVars>>

\* server.srv.Shutdown returns ctxShutDown's error while connections are
\* active; Shutdown logs the failure and returns.
HttpShutdownCtxDone ==
    /\ Running /\ shPc = "waitIdle"
    /\ \E h \in Requests : InFlight(h)
    /\ CtxShutDownDone
    /\ shPc' = "done"
    /\ logs' = logs \cup {LogShutdownFailed}
    /\ UNCHANGED <<dsn, procState, exitBy, servePc, keeper, memoryStorage,
                   nmsCalled, controller, srv, lisPc, inShutdown, notified,
                   stopChan, ctxCanceled, timeoutElapsed, closeCalls, released,
                   req, cacheVars>>

\* ------------------------------------------------------------- environment

\* Capacity of stopChan.
StopChanCap == 1

\* os.Interrupt arrives after signal.Notify: it is put in stopChan unless the
\* channel is full.
Interrupt ==
    /\ Running /\ notified
    /\ stopChan < StopChanCap
    /\ stopChan' = stopChan + 1
    /\ UNCHANGED <<dsn, procState, exitBy, servePc, keeper, memoryStorage,
                   nmsCalled, controller, srv, lisPc, inShutdown, notified,
                   ctxCanceled, timeoutElapsed, shPc, logs, closeCalls, released,
                   req, cacheVars>>

\* The owner of server.ctx cancels it.
CancelCtx ==
    /\ Running /\ ~ctxCanceled
    /\ ctxCanceled' = TRUE
    /\ UNCHANGED <<dsn, procState, exitBy, servePc, keeper, memoryStorage,
                   nmsCalled, controller, srv, lisPc, inShutdown, notified,
                   stopChan, timeoutElapsed, shPc, logs, closeCalls, released,
                   req, cacheVars>>

\* The timeout of ctxShutDown elapses.
TimeoutElapses ==
    /\ Running /\ shPc \in {"checkSrv", "closeListeners", "waitIdle"}
    /\ ~timeoutElapsed
    /\ timeoutElapsed' = TRUE
    /\ UNCHANGED <<dsn, procState, exitBy, servePc, keeper, memoryStorage,
                   nmsCalled, controller, srv, lisPc, inShutdown, notified,
                   stopChan, ctxCanceled, shPc, logs, closeCalls, released,
                   req, cacheVars>>

\* ------------------------------------------- the cache (contract of storage)

\* A caller: its position, the operation and its key, the record it puts or
\* has fetched, the record the map held when its Put began, the outcome of the
\* adapter's Upsert, and the result it got.
IdleCall == [pc |-> "idle", op |-> "none", key |-> "none", val |-> NoRecord,
             prior |-> NoRecord, upsert |-> "none", result |-> "none"]

\* The map's answer for a key.
Lookup(m, k) == m[k]

Returned(c, r) == [call EXCEPT ![c].pc = "returned", ![c].result = r]

\* Get(key), first part: the map is read under the lock; a hit is returned,
\* a miss goes to the adapter with the lock released.  A nil cache answers
\* StorageUnavailable.
GetLookup(c, k) ==
    /\ Running /\ call[c].pc = "idle"
    /\ LET started == [call EXCEPT ![c].op = "Get", ![c].key = k] IN
         IF controller = NilStorage
         THEN call' = [started EXCEPT ![c].pc = "returned",
                                      ![c].result = StorageUnavailable]
         ELSE /\ lockedBy = 0
              /\ call' = IF Lookup(mem, k) # NoRecord
                         THEN [started EXCEPT ![c].pc = "returned",
                                              ![c].result = Lookup(mem, k)]
                         ELSE [started EXCEPT ![c].pc = "fetching"]
    /\ UNCHANGED <<dsn, procState, exitBy, servePc, keeper, memoryStorage,
                   nmsCalled, controller, srv, lisPc, inShutdown, notified,
                   stopChan, ctxCanceled, timeoutElapsed, shPc, logs, closeCalls,
                   released, req, mem, db, lockedBy>>

\* Get(key), the adapter's Fetch: it fails on a closed connection or a failed
\* read; it finds the record of the durable store or none.
GetFetch(c) ==
    /\ Running /\ call[c].pc = "fetching"
    /\ \E ok \in BOOLEAN :
         IF keeper = "open" /\ ok
         THEN IF db[call[c].key] = NoRecord
              THEN call' = Returned(c, NotFoundError)
              ELSE call' = [call EXCEPT ![c].pc = "populating",
                                        ![c].val = db[call[c].key]]
         ELSE call' = Returned(c, PersistenceError)
    /\ UNCHANGED <<dsn, procState, exitBy, servePc, keeper, memoryStorage,
                   nmsCalled, controller, srv, lisPc, inShutdown, notified,
                   stopChan, ctxCanceled, timeoutElapsed, shPc, logs, closeCalls,
                   released, req, mem, db, lockedBy>>

\* Mutation: the fetched record overwrites whatever the map holds.
Populate_Overwrites(m, k, v) == [m EXCEPT ![k] = v]

\* The map after a fetched record is put in it: a record the map has got
\* meanwhile is kept.
Populate(m, k, v) == IF m[k] = NoRecord THEN [m EXCEPT ![k] = v] ELSE m

\* Get(key), last part: the fetched record is put in the map under the lock,
\* unless the map has got a record for the key meanwhile (the cache holds the
\* latest-known record per key), and is returned.
GetPopulate(c) ==
    /\ Running /\ call[c].pc = "populating"
    /\ lockedBy = 0
    /\ mem' = Populate(mem, call[c].key, call[c].val)
    /\ call' = Returned(c, call[c].val)
    /\ UNCHANGED <<dsn, procState, exitBy, servePc, keeper, memoryStorage,
                   nmsCalled, controller, srv, lisPc, inShutdown, notified,
                   stopChan, ctxCanceled, timeoutElapsed, shPc, logs, closeCalls,
                   released, req, db, lockedBy>>

\* Mutation: Put gives the lock back before the durable write.
PutLock_Released(c) == 0

\* The holder of the lock while Put awaits the adapter's Upsert: the caller,
\* so that map and durable outcome stay consistent.
PutLock(c) == c

\* Put(record), first part: under the lock the prior record of the key is kept
\* and the map is updated; the lock stays held over the durable write.  A nil
\* cache answers StorageUnavailable.
PutBegin(c, k, v) ==
    /\ Running /\ call[c].pc = "idle"
    /\ LET started == [call EXCEPT ![c].op = "Put", ![c].key = k, ![c].val = v] IN
         IF controller = NilStorage
         THEN /\ call' = [started EXCEPT ![c].pc = "returned",
                                         ![c].result = StorageUnavailable]
              /\ UNCHANGED <<mem, lockedBy>>
         ELSE /\ lockedBy = 0
              /\ lockedBy' = PutLock(c)
              /\ mem' = [mem EXCEPT ![k] = v]
              /\ call' = [started EXCEPT ![c].pc = "upserting", ![c].prior = mem[k]]
    /\ UNCHANGED <<dsn, procState, exitBy, servePc, keeper, memoryStorage,
                   nmsCalled, controller, srv, lisPc, inShutdown, notified,
                   stopChan, ctxCanceled, timeoutElapsed, shPc, logs, closeCalls,
                   released, req, db>>

\* Mutation: a failed Upsert leaves the map as Put updated it.
Rollback_Keeps(m, k, prior) == m

\* The map after the adapter's Upsert failed: the key is back at its prior
\* record.
Rollback(m, k, prior) == [m EXCEPT ![k] = prior]

\* Put(record), the adapter's Upsert: on success the durable store holds the
\* record; on failure (a closed connection, a failed write) the map is rolled
\* back and Put fails with PersistenceError.  The lock is released.
PutUpsert(c) ==
    /\ Running /\ call[c].pc = "upserting"
    /\ \E ok \in BOOLEAN :
         IF keeper = "open" /\ ok
         THEN /\ db' = [db EXCEPT ![call[c].key] = call[c].val]
              /\ mem' = mem
              /\ call' = [Returned(c, PutOk) EXCEPT ![c].upsert = "ok"]
         ELSE /\ db' = db
              /\ mem' = Rollback(mem, call[c].key, call[c].prior)
              /\ call' = [Returned(c, PersistenceError) EXCEPT ![c].upsert = "failed"]
    /\ lockedBy' = 0
    /\ UNCHANGED <<dsn, procState, exitBy, servePc, keeper, memoryStorage,
                   nmsCalled, controller, srv, lisPc, inShutdown, notified,
                   stopChan, ctxCanceled, timeoutElapsed, shPc, logs, closeCalls,
                   released, req>>

\* The caller has its result and is free for its next call.
CallDone(c) ==
    /\ Running /\ call[c].pc = "returned"
    /\ call' = [call EXCEPT ![c] = IdleCall]
    /\ UNCHANGED <<dsn, procState, exitBy, servePc, keeper, memoryStorage,
                   nmsCalled, controller, srv, lisPc, inShutdown, notified,
                   stopChan, ctxCanceled, timeoutElapsed, shPc, logs, closeCalls,
                   released, req, mem, db, lockedBy>>

\* Close() of the cache: a no-op on a nil cache; otherwise the cache is Closed
\* and the call is delegated to the adapter's Close.
CacheClose ==
    /\ Running
    /\ memoryStorage # "unset"
    /\ closeCalls < MaxCloseCalls
    /\ IF memoryStorage = NilStorage
       THEN UNCHANGED <<keeper, memoryStorage, closeCalls, released>>
       ELSE LET c == BDKeeperClose(keeper) IN
              /\ keeper' = c.keeper
              /\ released' = released + c.released
              /\ closeCalls' = closeCalls + 1
              /\ memoryStorage' = "closed"
    /\ UNCHANGED <<dsn, procState, exitBy, servePc, nmsCalled, controller, srv,
                   lisPc, inShutdown, notified, stopChan, ctxCanceled,
                   timeoutElapsed, shPc, logs, req, cacheVars>>

\* ------------------------------------------------------------ specification

IdleReq == [pc |-> "idle", afterSignal |-> FALSE, storeAt |-> "none"]

\* The state when Serve is called on a Server made by NewServer.
Init ==
    /\ dsn \in DSNs
    /\ procState = "running"
    /\ exitBy = "none"
    /\ servePc = "newLogger"
    /\ keeper = NilKeeper
    /\ memoryStorage = "unset"
    /\ nmsCalled = FALSE
    /\ controller = "none"
    /\ srv = "nil"
    /\ lisPc = "none"
    /\ inShutdown = FALSE
    /\ notified = FALSE
    /\ stopChan = 0
    /\ ctxCanceled = FALSE
    /\ timeoutElapsed = FALSE
    /\ shPc = "idle"
    /\ logs = {}
    /\ closeCalls = 0
    /\ released = 0
    /\ req = [h \in Requests |-> IdleReq]
    /\ mem = [k \in Keys |-> NoRecord]
    /\ db = [k \in Keys |-> NoRecord]
    /\ lockedBy = 0
    /\ call = [c \in Callers |-> IdleCall]

ServeStep ==
    \/ ServeNewLogger
    \/ ServeInitKeeper
    \/ ServeInitStorage
    \/ ServeInitController
    \/ ServeStartServer
    \/ ServeAssignSrv
    \/ ServeNotify
    \/ ServeReceive
    \/ ServeDeferredClose

ListenerStep ==
    \/ ListenAndServe
    \/ ListenerFatal
    \/ ListenerEnd

ShutdownStep ==
    \/ ShutdownCheckSrv
    \/ HttpShutdownBegin
    \/ HttpShutdownIdle
    \/ HttpShutdownCtxDone

HandlerStep == \E h \in Requests : StorageOp(h) \/ Respond(h)

Next ==
    \/ ServeStep
    \/ ListenerStep
    \/ ShutdownStep
    \/ HandlerStep
    \/ \E h \in Requests : Accept(h)
    \/ AcceptError
    \/ ShutdownCall
    \/ Interrupt
    \/ CancelCtx
    \/ TimeoutElapses
    \/ MainReturn

Spec == Init /\ [][Next]_vars

\* The goroutines of the process are scheduled fairly: a step of Serve, of the
\* listener goroutine, of Shutdown or of a handler that stays possible is
\* eventually taken.  The environment (signals, cancellation, clients, the
\* caller of Shutdown) owes nothing.
FairSpec ==
    /\ Spec
    /\ WF_vars(ServeStep)
    /\ WF_vars(ListenerStep)
    /\ WF_vars(ShutdownStep)
    /\ WF_vars(HandlerStep)

\* The cache in use: startup has completed (Serve waits for the signal, the
\* listener accepts), the keeper and the cache are those Serve's helpers make
\* of the descriptor, and the durable store holds any records.
CacheInit ==
    /\ dsn \in DSNs
    /\ procState = "running"
    /\ exitBy = "none"
    /\ servePc = "waiting"
    /\ \E up \in BOOLEAN :
         LET k == initializeKeeper(dsn, up)
             s == initializeStorage(ToKeeperIface(k.keeper))
         IN /\ keeper = k.keeper
            /\ memoryStorage = s.storage
            /\ nmsCalled = s.called
            /\ controller = initializeBaseController(s.storage)
            /\ logs = k.logs \cup s.logs
                       \cup (IF k.keeper = NilKeeper THEN {DebugKeeperFailed} ELSE {})
                       \cup (IF s.storage = NilStorage THEN {DebugStorageFailed} ELSE {})
    /\ srv = "set"
    /\ lisPc = "listening"
    /\ inShutdown = FALSE
    /\ notified = TRUE
    /\ stopChan = 0
    /\ ctxCanceled = FALSE
    /\ timeoutElapsed = FALSE
    /\ shPc = "idle"
    /\ closeCalls = 0
    /\ released = 0
    /\ req = [h \in Requests |-> IdleReq]
    /\ mem = [k \in Keys |-> NoRecord]
    /\ db \in [Keys -> Records \cup {NoRecord}]
    /\ lockedBy = 0
    /\ call = [c \in Callers |-> IdleCall]

CallStep(c) ==
    \/ \E k \in Keys : GetLookup(c, k)
    \/ GetFetch(c)
    \/ GetPopulate(c)
    \/ \E k \in Keys, v \in Records : PutBegin(c, k, v)
    \/ PutUpsert(c)
    \/ CallDone(c)

\* The callers of the cache, and the end of Serve: the interrupt, Serve's
\* return and its deferred keeper.Close().
CacheNext ==
    \/ \E c \in Callers : CallStep(c)
    \/ CacheClose
    \/ Interrupt
    \/ ServeReceive
    \/ ServeDeferredClose

CacheSpec == CacheInit /\ [][CacheNext]_vars

\* The users of the cache once the controller holds it.
StorageUse ==
    /\ controller # "none"
    /\ \/ \E c \in Callers : CallStep(c)
       \/ CacheClose

\* The life of the cache: Serve from its start to its return, with the users
\* of the cache, and no listener failure.
LifeNext ==
    \/ ServeStep
    \/ Interrupt
    \/ StorageUse

LifeSpec == Init /\ [][LifeNext]_vars

\* ------------------------------------------------------------------ claims

\* Serve has passed initializeStorage.
StorageInitialized ==
    servePc \notin {"newLogger", "fatal", "initKeeper", "initStorage"}

\* C1: in a run with the empty descriptor no cache is constructed: the keeper
\* is nil, initializeStorage yields nil without calling
\* storage.NewMemoryStorage, and the controller holds a nil storage.
C1_NoCacheOnEmptyDSN ==
    (dsn = EmptyDSN /\ StorageInitialized) =>
        /\ keeper = NilKeeper
        /\ memoryStorage = NilStorage
        /\ ~nmsCalled
        /\ controller \in {"none", NilStorage}

\* C2: the connection of an opened adapter is never closed while the listener
\* still accepts connections.
C2_CloseAfterListenerStopped == keeper = "closed" => ~Accepting

\* C3: when the process has ended, every adapter that was opened has had its
\* Close called exactly once.
C3_CloseExactlyOnceAtExit ==
    (procState = "exited" /\ keeper # NilKeeper) => closeCalls = 1

\* C4: once server.ctx is canceled, Serve eventually returns with the adapter's
\* connection released.  (Runs the process leaves by log.Fatalln are set aside
\* here; the claim asks for more, so what refutes this refutes the claim.)
C4_CancelLeadsToReturn ==
    ctxCanceled ~> (procState = "exited" \/ (servePc = "done" /\ keeper # "open"))

\* C5: no request is accepted after Serve has received the signal.
C5_NoAcceptAfterSignal == \A h \in Requests : ~req[h].afterSignal

\* C6: a request accepted before the signal never has its storage operation
\* meet a closed adapter.
C6_InFlightMeetsOpenStore ==
    \A h \in Requests :
        (req[h].pc \in {"served", "done"} /\ ~req[h].afterSignal) =>
            req[h].storeAt # "closed"

StartupPcs ==
    {"initKeeper", "initStorage", "initController", "startServer", "assignSrv",
     "notify"}

\* C8: the empty descriptor is not fatal: the warning is logged, the keeper is
\* nil, no step of Serve ends the process because of it (only a failed logger
\* or listener does), every startup step of Serve is followed by the next, and
\* Serve waits for the signal with the controller built and the server started.
C8_EmptyDSNNotFatal ==
    dsn = EmptyDSN =>
        /\ servePc \notin {"newLogger", "fatal", "initKeeper"} =>
               (WarnDSNEmpty \in logs /\ keeper = NilKeeper)
        /\ (Running /\ servePc \in StartupPcs) => ENABLED ServeStep
        /\ procState = "exited" => exitBy \in {"logger", "listener", "main"}
        /\ exitBy = "logger" <=> servePc = "fatal"
        /\ exitBy = "main" => servePc = "done"
        /\ servePc = "waiting" =>
               (controller # "none" /\ lisPc # "none" /\ srv = "set" /\ notified)

\* C8, its case: Serve waits for the signal in a run with the empty descriptor.
C8_Witness ==
    /\ dsn = EmptyDSN /\ servePc = "waiting" /\ Running
    /\ WarnDSNEmpty \in logs /\ controller = NilStorage /\ lisPc = "listening"

UpsertFails(c) ==
    /\ call[c].pc = "upserting"
    /\ call'[c].pc = "returned"
    /\ call'[c].upsert = "failed"

UpsertSucceeds(c) ==
    /\ call[c].pc = "upserting"
    /\ call'[c].pc = "returned"
    /\ call'[c].upsert = "ok"

\* The step in which caller c begins a Put for key k on a non-nil cache.
PutBegins(c, k) ==
    /\ call[c].pc = "idle"
    /\ call'[c].pc = "upserting"
    /\ call'[c].key = k

\* The step in which a Get of caller c is answered from the map.
GetHits(c) ==
    /\ call[c].pc = "idle"
    /\ call'[c].pc = "returned"
    /\ call'[c].op = "Get"
    /\ controller # NilStorage

Upserting == {c \in Callers : call[c].pc = "upserting"}

C14_FatalStartupExits ==
    /\ [](servePc = "fatal" <=> exitBy = "logger")
    /\ [](exitBy \in {"logger", "listener"} =>
              (procState = "exited" /\ LogFatal \in logs))
    /\ [](exitBy = "listener" => lisPc = "failed")
    /\ []((lisPc = "failed" /\ Running) => ENABLED ListenerFatal)
    /\ [][lisPc = "failed" => lisPc' = "failed"]_vars
    /\ (lisPc = "failed" ~> procState = "exited")

\* C14, its case: the listener failed while Serve waited, and the process has
\* been ended by log.Fatalln.
C14_Witness ==
    /\ servePc = "waiting" /\ lisPc = "failed"
    /\ procState = "exited" /\ exitBy = "listener" /\ LogFatal \in logs

\* Serve has not yet called startServer.
BeforeStartServer ==
    servePc \in {"newLogger", "fatal", "initKeeper", "initStorage",
                 "initController", "startServer"}

\* C15: the listener exists, and a request is dispatched, only after keeper,
\* storage and controller are initialized; each is initialized once (the
\* storage and the controller never change afterwards, the keeper only by
\* being closed); the controller holds Serve's storage, and every handler's
\* storage operation goes to it.
C15_StartupOrder ==
    /\ [](lisPc # "none" =>
            /\ ~BeforeStartServer
            /\ memoryStorage # "unset"
            /\ controller # "none")
    /\ [](\A h \in Requests :
            req[h].pc # "idle" => (memoryStorage # "unset" /\ controller # "none"))
    /\ [](BeforeStartServer => \A h \in Requests : req[h].pc = "idle")
    /\ [](controller # "none" => controller = memoryStorage)
    /\ [](\A h \in Requests :
            req[h].pc \in {"served", "done"} =>
                (req[h].storeAt = "unavailable" <=> memoryStorage = NilStorage))
    /\ [][memoryStorage # "unset" => memoryStorage' = memoryStorage]_vars
    /\ [][controller # "none" => controller' = controller]_vars
    /\ [][servePc \notin {"newLogger", "initKeeper"} =>
            (keeper' = keeper \/ (keeper = "open" /\ keeper' = "closed"))]_vars

\* C15, its case: two requests were served by the one storage Serve built.
C15_Witness ==
    /\ controller = "ready" /\ memoryStorage = "ready" /\ lisPc = "listening"
    /\ \A h \in Requests : req[h].pc = "served" /\ req[h].storeAt = "open"

\* C16: once Shutdown has reported "server exited properly", the listener is
\* not accepting connections, now or later.
C16_ExitedMeansNotAccepting == LogExited \in logs => ~Accepting

\* ListenAndServe has returned http.ErrServerClosed.
ServerClosed == lisPc \in {"errClosed", "ended"}

\* C17: ListenAndServe returns http.ErrServerClosed only because Shutdown was
\* called; the goroutine then ends, and only ends: it does not exit the
\* process or log, the process is never left through the listener's
\* log.Fatalln in that case, and Shutdown's last step stays possible.
C17_GracefulNotFatal ==
    /\ [](ServerClosed => (inShutdown /\ exitBy # "listener"))
    /\ []((lisPc = "errClosed" /\ Running) => ENABLED ListenerEnd)
    /\ [][ServerClosed => ServerClosed']_vars
    /\ [][(lisPc = "errClosed" /\ lisPc' # lisPc) =>
            (lisPc' = "ended" /\ procState' = procState /\ logs' = logs)]_vars
    /\ []((ServerClosed /\ Running /\ shPc = "waitIdle"
            /\ \A h \in Requests : ~InFlight(h)) => ENABLED HttpShutdownIdle)

\* C17, its case: the listener goroutine ended on http.ErrServerClosed and
\* Shutdown reported its outcome in a process still running.
C17_Witness ==
    /\ Running /\ lisPc = "ended" /\ shPc = "done"
    /\ {LogStopped, LogExited} \subseteq logs

\* C18: when Shutdown has returned, either it logged the failure and neither
\* "server stopped" nor "server exited properly", or it logged both and the
\* server is stopped: shut down and not accepting.
C18_SuccessOnlyWhenStopped ==
    shPc = "done" =>
        IF LogShutdownFailed \in logs
        THEN LogStopped \notin logs /\ LogExited \notin logs
        ELSE /\ {LogStopped, LogExited} \subseteq logs
             /\ inShutdown
             /\ ~Accepting

====
